---- MODULE Spec2Model ----
(***************************************************************************)
(* Model of plugins/modules/cyberark_account.py: one run of main() against *)
(* the vault's HTTP API (lookup, create / patch / delete, rotation), and    *)
(* the pure helpers it uses (referenced_value, deep_get, the patch builder  *)
(* of update_account, the payload builder of add_account, the rotation      *)
(* decision of reset_account_if_needed).                                    *)
(*                                                                          *)
(* Python values are tagged records: None is Null, a str / bool is Str(s),  *)
(* a dict is Dict(f) with f a function from keys to values.  A dotted path  *)
(* "a.b" is the sequence <<"a", "b">> of its segments (str.split('.')), and *)
(* the comma separated identified_by is the sequence of its dotted paths.   *)
(* A raised Python exception is the value Raise(kind).                      *)
(*                                                                          *)
(* The vault is the environment: it answers the lookup with a search result *)
(* or an HTTPError, and every other request with a success or error code.   *)
(* accounts_data["count"] is taken to be the length of accounts_data        *)
(* ["value"]; the query string of the lookup is not modelled.  The order of *)
(* module.params.keys() is fixed to the declaration order.                  *)
(*                                                                          *)
(* Spec is one run of main(); SpecPatch runs the patch builder again on the *)
(* record its own patch produced; SpecDeepGet applies deep_get to one call. *)
(***************************************************************************)
EXTENDS Integers, Sequences, FiniteSets, TLC

----------------------------------------------------------------------------
(* Python values *)

Null == [t |-> "null"]
Str(s) == [t |-> "str", v |-> s]
Dict(f) == [t |-> "dict", d |-> f]
Raise(kind) == [t |-> "raise", e |-> kind]
EmptyMap == [k \in {} |-> Null]

IsDict(x) == x.t = "dict"
IsRaise(x) == x.t = "raise"

\* dct.keys(): only a dict has keys; None.keys() / "s".keys() raise AttributeError
HasKeys(x) == IsDict(x)
Keys(x) == DOMAIN x.d

\* dct[key] = value on a copy
DictSet(f, key, value) == [k \in (DOMAIN f) \cup {key} |-> IF k = key THEN value ELSE f[k]]
\* del dct[key] on a copy
DictDel(f, key) == [k \in (DOMAIN f) \ {key} |-> f[k]]

----------------------------------------------------------------------------
(* Module-level tables *)

\* the sentinel `_empty = object()`: "no default supplied"
NoDefault == [t |-> "_empty"]

ansible_specific_parameters ==
    { <<"state">>, <<"api_base_url">>, <<"validate_certs">>, <<"cyberark_session">>,
      <<"identified_by">>, <<"logging_level">>, <<"logging_file">>, <<"new_secret">>,
      <<"secret_management", "management_action">>,
      <<"secret_management", "new_secret">>,
      <<"management_action">> }

cyberark_nonremovable_properties ==
    {"createdTime", "id", "name", "lastModifiedTime", "safeName", "secretType"}

removal_value == Str("NO_VALUE")

cyberark_reference_fieldnames ==
    [ username |-> "userName",
      safe |-> "safeName",
      platform_id |-> "platformId",
      secret_type |-> "secretType",
      platform_account_properties |-> "platformAccountProperties",
      secret_management |-> "secretManagement",
      manual_management_reason |-> "manualManagementReason",
      automatic_management_enabled |-> "automaticManagementEnabled" ]

----------------------------------------------------------------------------
(* referenced_value and deep_get *)

\* dct[field] if field in dct.keys() else default   (dct a mapping with keys)
referenced_value(field, dct, default) ==
    IF field \in DOMAIN dct THEN dct[field] ELSE default

\* the body of deep_get's for loop, for the segments still to walk
RECURSIVE deep_get_walk(_, _, _, _, _)
deep_get_walk(result_dct, dct, path, default, use_reference_table) ==
    IF path = <<>> THEN result_dct
    ELSE
      LET key == Head(path)
          key_field == IF use_reference_table
                       THEN referenced_value(key, cyberark_reference_fieldnames, key)
                       ELSE key
      IN  IF ~HasKeys(result_dct)
          THEN Raise("AttributeError")          \* result_dct.keys(): not a KeyError, not caught
          ELSE
            LET cur == IF Keys(result_dct) = {} THEN dct ELSE result_dct
            IN  IF key_field \in Keys(cur)
                THEN deep_get_walk(cur.d[key_field], dct, Tail(path), default, use_reference_table)
                ELSE IF key \in Keys(cur)
                THEN deep_get_walk(cur.d[key], dct, Tail(path), default, use_reference_table)
                ELSE IF default = NoDefault THEN Raise("KeyError") ELSE default

deep_get(dct, dotted_path, default, use_reference_table) ==
    deep_get_walk(Dict(EmptyMap), dct, dotted_path, default, use_reference_table)

----------------------------------------------------------------------------
(* module.params *)

\* keys of module.params that the modelled code reads, in the declaration
\* order of main's argument_spec
ParamOrder ==
    << "state", "identified_by", "safe", "platform_id", "address", "name",
       "secret_type", "secret", "new_secret", "username", "secret_management",
       "remote_machines_access", "platform_account_properties" >>

\* keys a nested parameter can carry, in a fixed iteration order
ChildOrder ==
    << "automatic_management_enabled", "manual_management_reason",
       "management_action", "new_secret",
       "remote_machines", "access_restricted_to_remote_machines",
       "Port", "username", "userName" >>

Ok(x) == [t |-> "ok", v |-> x]

----------------------------------------------------------------------------
(* update_account: the patch builder *)

\* path_operations without the equality test: an existing value is always replaced
path_operations_always_replace(parm_value, existing_value, path_value, is_child) ==
    IF existing_value # Null
    THEN IF parm_value = removal_value
         THEN << [op |-> "remove", path |-> path_value] >>
         ELSE << [op |-> "replace", value |-> parm_value, path |-> path_value] >>
    ELSE IF (is_child => parm_value # Null) /\ parm_value # removal_value
         THEN << [op |-> "add", value |-> parm_value, path |-> path_value] >>
         ELSE << >>

\* path_operations without the sentinel test on the add branch
path_operations_adds_sentinel(parm_value, existing_value, path_value, is_child) ==
    IF existing_value # Null
    THEN IF parm_value = removal_value
         THEN << [op |-> "remove", path |-> path_value] >>
         ELSE IF existing_value # parm_value
         THEN << [op |-> "replace", value |-> parm_value, path |-> path_value] >>
         ELSE << >>
    ELSE IF (is_child => parm_value # Null)
         THEN << [op |-> "add", value |-> parm_value, path |-> path_value] >>
         ELSE << >>

\* the add / replace / remove decision for one resolved path
path_operations(parm_value, existing_value, path_value, is_child) ==
    IF existing_value # Null
    THEN IF parm_value = removal_value
         THEN << [op |-> "remove", path |-> path_value] >>
         ELSE IF existing_value # parm_value
         THEN << [op |-> "replace", value |-> parm_value, path |-> path_value] >>
         ELSE << >>
    ELSE IF (is_child => parm_value # Null) /\ parm_value # removal_value
         THEN << [op |-> "add", value |-> parm_value, path |-> path_value] >>
         ELSE << >>

\* one iteration of the loop over the children of a dict parameter
child_operations(parameter_name, child_parm_name, module_parm_value, cyberark_property_name, existing_account_value) ==
    IF <<parameter_name, child_parm_name>> \in ansible_specific_parameters
    THEN Ok(<< >>)
    ELSE IF ~HasKeys(existing_account_value)
    THEN Raise("AttributeError")       \* existing_account_value.keys()
    ELSE
      LET child_module_parm_value == module_parm_value.d[child_parm_name]
          child_cyberark_property_name ==
              referenced_value(child_parm_name, cyberark_reference_fieldnames, child_parm_name)
          child_existing_account_value ==
              referenced_value(child_cyberark_property_name, existing_account_value.d, Null)
          path_value == <<cyberark_property_name, child_cyberark_property_name>>
      IN  Ok(path_operations(child_module_parm_value, child_existing_account_value,
                             path_value, TRUE))

RECURSIVE children_loop(_, _, _, _, _)
children_loop(children, parameter_name, module_parm_value, cyberark_property_name, existing_account_value) ==
    IF children = << >> THEN Ok(<< >>)
    ELSE IF Head(children) \notin Keys(module_parm_value)
    THEN children_loop(Tail(children), parameter_name, module_parm_value,
                       cyberark_property_name, existing_account_value)
    ELSE
      LET first == child_operations(parameter_name, Head(children), module_parm_value,
                                    cyberark_property_name, existing_account_value)
          rest == children_loop(Tail(children), parameter_name, module_parm_value,
                                cyberark_property_name, existing_account_value)
      IN  IF IsRaise(first) THEN first
          ELSE IF IsRaise(rest) THEN rest
          ELSE Ok(first.v \o rest.v)

\* one iteration of the loop over module.params.keys()
parameter_operations(parameter_name, module_params, existing_account) ==
    IF <<parameter_name>> \in ansible_specific_parameters
       \/ module_params.d[parameter_name] = Null
    THEN Ok(<< >>)
    ELSE
      LET module_parm_value == module_params.d[parameter_name]
          cyberark_property_name ==
              referenced_value(parameter_name, cyberark_reference_fieldnames, parameter_name)
          existing_account_value ==
              referenced_value(cyberark_property_name, existing_account.d, Null)
      IN  IF IsDict(module_parm_value)
          THEN children_loop(ChildOrder, parameter_name, module_parm_value,
                             cyberark_property_name, existing_account_value)
          ELSE Ok(path_operations(module_parm_value, existing_account_value,
                                  <<cyberark_property_name>>, FALSE))

RECURSIVE parameters_loop(_, _, _)
parameters_loop(names, module_params, existing_account) ==
    IF names = << >> THEN Ok(<< >>)
    ELSE IF Head(names) \notin Keys(module_params)
    THEN parameters_loop(Tail(names), module_params, existing_account)
    ELSE
      LET first == parameter_operations(Head(names), module_params, existing_account)
          rest == parameters_loop(Tail(names), module_params, existing_account)
      IN  IF IsRaise(first) THEN first
          ELSE IF IsRaise(rest) THEN rest
          ELSE Ok(first.v \o rest.v)

\* payload["Operations"] as update_account builds it: Ok(list) or the exception
build_operations(module_params, existing_account) ==
    parameters_loop(ParamOrder, module_params, existing_account)

----------------------------------------------------------------------------
(* add_account: the create payload *)

\* one iteration of the loop over module.params.keys()
payload_with(payload, parameter_name, module_params) ==
    IF <<parameter_name>> \in ansible_specific_parameters
       \/ module_params.d[parameter_name] = Null
    THEN payload
    ELSE IF parameter_name \notin DOMAIN cyberark_reference_fieldnames
    THEN LET module_parm_value == deep_get(module_params, <<parameter_name>>, NoDefault, FALSE)
         IN  IF module_parm_value # removal_value
             THEN DictSet(payload, parameter_name, module_parm_value)
             ELSE payload
    ELSE LET module_parm_value == deep_get(module_params, <<parameter_name>>, NoDefault, TRUE)
         IN  IF module_parm_value # removal_value
             THEN DictSet(payload, cyberark_reference_fieldnames[parameter_name],
                          module_parm_value)
             ELSE payload

RECURSIVE payload_loop(_, _, _)
payload_loop(names, payload, module_params) ==
    IF names = << >> THEN payload
    ELSE IF Head(names) \notin Keys(module_params)
    THEN payload_loop(Tail(names), payload, module_params)
    ELSE payload_loop(Tail(names), payload_with(payload, Head(names), module_params),
                      module_params)

create_payload(module_params) ==
    payload_loop(ParamOrder, [safeName |-> module_params.d["safe"]], module_params)

----------------------------------------------------------------------------
(* reset_account_if_needed: the rotation decision *)

NoEndPoint == [t |-> "rotation", end_point |-> "None"]

\* rotation_rule with the bare new_secret branch tested first
rotation_rule_bare_secret_first(management_action, cpm_new_secret, module_params) ==
    IF "new_secret" \in Keys(module_params) /\ module_params.d["new_secret"] # Null
    THEN [t |-> "rotation", end_point |-> "Password/Update", rule |-> 5,
          payload |-> [ChangeEntireGroup |-> Str("True"),
                       NewCredentials |-> module_params.d["new_secret"]]]
    ELSE IF management_action = Str("change")
            /\ cpm_new_secret # Null /\ cpm_new_secret # Str("NOT_FOUND")
    THEN [t |-> "rotation", end_point |-> "SetNextPassword", rule |-> 1,
          payload |-> [ChangeImmediately |-> Str("False"), NewCredentials |-> cpm_new_secret]]
    ELSE IF management_action = Str("change_immediately")
            /\ (cpm_new_secret = Str("NOT_FOUND") \/ cpm_new_secret = Null)
    THEN [t |-> "rotation", end_point |-> "Change", rule |-> 2,
          payload |-> [ChangeEntireGroup |-> Str("False")]]
    ELSE IF management_action = Str("change_immediately")
    THEN [t |-> "rotation", end_point |-> "SetNextPassword", rule |-> 3,
          payload |-> [ChangeImmediately |-> Str("True"), NewCredentials |-> cpm_new_secret]]
    ELSE IF management_action = Str("reconcile")
    THEN [t |-> "rotation", end_point |-> "Reconcile", rule |-> 4, payload |-> EmptyMap]
    ELSE NoEndPoint

\* the if / elif chain that sets end_point and payload
rotation_rule(management_action, cpm_new_secret, module_params) ==
    IF management_action = Str("change")
       /\ cpm_new_secret # Null /\ cpm_new_secret # Str("NOT_FOUND")
    THEN [t |-> "rotation", end_point |-> "SetNextPassword", rule |-> 1,
          payload |-> [ChangeImmediately |-> Str("False"), NewCredentials |-> cpm_new_secret]]
    ELSE IF management_action = Str("change_immediately")
            /\ (cpm_new_secret = Str("NOT_FOUND") \/ cpm_new_secret = Null)
    THEN [t |-> "rotation", end_point |-> "Change", rule |-> 2,
          payload |-> [ChangeEntireGroup |-> Str("False")]]
    ELSE IF management_action = Str("change_immediately")
            /\ (cpm_new_secret # Null /\ cpm_new_secret # Str("NOT_FOUND"))
    THEN [t |-> "rotation", end_point |-> "SetNextPassword", rule |-> 3,
          payload |-> [ChangeImmediately |-> Str("True"), NewCredentials |-> cpm_new_secret]]
    ELSE IF management_action = Str("reconcile")
    THEN [t |-> "rotation", end_point |-> "Reconcile", rule |-> 4, payload |-> EmptyMap]
    ELSE IF "new_secret" \in Keys(module_params) /\ module_params.d["new_secret"] # Null
    THEN [t |-> "rotation", end_point |-> "Password/Update", rule |-> 5,
          payload |-> [ChangeEntireGroup |-> Str("True"),
                       NewCredentials |-> module_params.d["new_secret"]]]
    ELSE NoEndPoint

\* the two deep_get reads, then the chain: Raise(..), NoEndPoint or the chosen call
rotation_decision(module_params) ==
    LET management_action ==
            deep_get(module_params, <<"secret_management", "management_action">>,
                     Str("NOT_FOUND"), FALSE)
        cpm_new_secret ==
            deep_get(module_params, <<"secret_management", "new_secret">>,
                     Str("NOT_FOUND"), FALSE)
    IN  IF IsRaise(management_action) THEN management_action
        ELSE IF IsRaise(cpm_new_secret) THEN cpm_new_secret
        ELSE rotation_rule(management_action, cpm_new_secret, module_params)

----------------------------------------------------------------------------
(* get_account: matching the search result *)

identified_by_fields(module_params) == module_params.d["identified_by"].v

\* the inner loop over identified_by_fields for one record:
\* Ok(TRUE) / Ok(FALSE), or the exception a deep_get raised
RECURSIVE fields_loop(_, _, _, _)
fields_loop(fields, found, account_record, module_params) ==
    IF fields = << >> THEN Ok(found)
    ELSE
      LET field == Head(fields)
          record_field_value == deep_get(account_record, field, Str("NOT FOUND"), TRUE)
          logged == deep_get(module_params, field, Str("NOT FOUND"), TRUE)
          wanted == deep_get(module_params, field, Str("NOT FOUND"), FALSE)
      IN  IF IsRaise(record_field_value) THEN record_field_value
          ELSE IF IsRaise(logged) THEN logged
          ELSE IF record_field_value = Str("NOT FOUND") THEN Ok(FALSE)
          ELSE IF IsRaise(wanted) THEN wanted
          ELSE IF record_field_value = wanted
          THEN fields_loop(Tail(fields), TRUE, account_record, module_params)
          ELSE Ok(FALSE)

\* record_found comparing the first identity field alone
record_found_first_field(account_record, module_params) ==
    fields_loop(<< Head(identified_by_fields(module_params)) >>, FALSE,
                account_record, module_params)

record_found(account_record, module_params) ==
    fields_loop(identified_by_fields(module_params), FALSE, account_record, module_params)

\* the loop over accounts_data["value"]:
\* [how_many, first_record_found], or the exception raised on the way
RECURSIVE records_loop(_, _, _, _)
records_loop(value, how_many, first_record_found, module_params) ==
    IF value = << >>
    THEN [t |-> "ok", how_many |-> how_many, first_record_found |-> first_record_found]
    ELSE
      LET found == record_found(Head(value), module_params)
      IN  IF IsRaise(found) THEN found
          ELSE IF found.v
          THEN records_loop(Tail(value), how_many + 1,
                            IF first_record_found = Null THEN Head(value)
                            ELSE first_record_found,
                            module_params)
          ELSE records_loop(Tail(value), how_many, first_record_found, module_params)

match_records(value, module_params) == records_loop(value, 0, Null, module_params)

----------------------------------------------------------------------------
(* The vault, as far as a run observes it *)

\* what a PATCH does to the stored record: add / replace set the path to the
\* value, remove deletes the path (paths have one or two segments)
apply_operation(record, operation) ==
    LET path == operation.path
        top == path[1]
    IN  IF Len(path) = 1
        THEN IF operation.op = "remove"
             THEN Dict(DictDel(record.d, top))
             ELSE Dict(DictSet(record.d, top, operation.value))
        ELSE LET parent == record.d[top].d
             IN  IF operation.op = "remove"
                 THEN Dict(DictSet(record.d, top, Dict(DictDel(parent, path[2]))))
                 ELSE Dict(DictSet(record.d, top,
                                   Dict(DictSet(parent, path[2], operation.value))))

RECURSIVE apply_operations(_, _)
apply_operations(record, operations) ==
    IF operations = << >> THEN record
    ELSE apply_operations(apply_operation(record, Head(operations)), Tail(operations))

\* the record the create endpoint answers with: the payload under a fresh id
NewId == Str("9")
created_record(payload) == Dict(DictSet(payload, "id", NewId))

SuccessCodes == {200, 201}
ErrorCodes == {404, 500}

----------------------------------------------------------------------------
(* State of one run of main() *)

VARIABLES
    params,          \* module.params
    pc,              \* where main() stands
    found,           \* main's found
    accounts_data,   \* accounts_data["value"] the lookup was answered with
    account_record,  \* main's account_record (the vault's record in SpecPatch)
    status_code,     \* main's status_code
    changed,         \* main's changed
    result,          \* main's result["result"]
    operations,      \* payload["Operations"] of the last update_account
    rotation,        \* what reset_account_if_needed decided
    requests,        \* the HTTP requests sent so far, in order
    responses,       \* the status codes answered so far, in order
    outcome,         \* how the run ended: exit_json, fail_json or an exception
    runs,            \* SpecPatch: how often the patch builder has run
    call             \* SpecDeepGet: the arguments deep_get is called with

vars == << params, pc, found, accounts_data, account_record, status_code, changed, result,
           operations, rotation, requests, responses, outcome, runs, call >>

Running == [kind |-> "running"]
NoCall == [t |-> "none"]
NotBuilt == [t |-> "none"]

Request(method, end_point, id, data) ==
    [method |-> method, end_point |-> end_point, id |-> id, data |-> data]

\* fail_json that reports and lets the caller try again
FailJsonAndRetry(where, code) ==
    /\ pc' = pc
    /\ outcome' = [kind |-> "fail_json", where |-> where, status_code |-> code]

\* module.fail_json(..., status_code=code): the run ends here
FailJson(where, code) ==
    /\ pc' = "failed"
    /\ outcome' = [kind |-> "fail_json", where |-> where, status_code |-> code]

\* an exception no handler catches: the run ends with a traceback
Uncaught(where, exception) ==
    /\ pc' = "failed"
    /\ outcome' = [kind |-> "exception", where |-> where, status_code |-> -1,
                   e |-> exception.e]

state == params.d["state"]

----------------------------------------------------------------------------
(* Inputs of the run: module.params and the search results the vault may answer *)

MaxRecords == 2      \* longest accounts_data["value"] the lookup is answered with

StrOrNull(S) == {Null} \cup {Str(x) : x \in S}

IdentifiedBy(fields) == [t |-> "str", v |-> fields]
DefaultIdentifiedBy ==
    IdentifiedBy(<< <<"username">>, <<"address">>, <<"platform_id">> >>)

SecretManagement(enabled, reason, action, secret) ==
    Dict([automatic_management_enabled |-> enabled,
          manual_management_reason |-> reason,
          management_action |-> action,
          new_secret |-> secret])

ModuleParams(st, identified_by, address, name, new_secret, secret_management, platform_account_properties) ==
    Dict([state |-> st,
          identified_by |-> identified_by,
          safe |-> Str("S1"),
          platform_id |-> Str("P1"),
          address |-> address,
          name |-> name,
          secret_type |-> Str("password"),
          secret |-> Null,
          new_secret |-> new_secret,
          username |-> Str("u1"),
          secret_management |-> secret_management,
          remote_machines_access |-> Null,
          platform_account_properties |-> platform_account_properties])

ManagementActions == {"change", "change_immediately", "reconcile"}

MainSecretManagement ==
    {Null} \cup
    { SecretManagement(enabled, Null, action, secret) :
        enabled \in StrOrNull({"true"}),
        action \in StrOrNull(ManagementActions),
        secret \in StrOrNull({"s1"}) }

MainParams ==
    { ModuleParams(st, identified_by, address, Null, new_secret, secret_management, Null) :
        st \in {Str("present"), Str("absent")},
        identified_by \in {DefaultIdentifiedBy, IdentifiedBy(<< <<"address">> >>)},
        address \in {Str("a1"), Str("a2")},
        new_secret \in StrOrNull({"n1"}),
        secret_management \in MainSecretManagement }

VaultRecord(id, address, platform_id) ==
    [id |-> Str(id), userName |-> Str("u1"), address |-> Str(address),
     platformId |-> Str(platform_id), safeName |-> Str("S1"),
     secretType |-> Str("password")]

RecordPool ==
    { Dict(DictSet(VaultRecord("1", "a1", "P1"), "secretManagement",
                   Dict([automaticManagementEnabled |-> Str("true")]))),
      Dict(DictSet(VaultRecord("2", "a1", "P1"), "secretManagement",
                   Dict([automaticManagementEnabled |-> Str("true")]))),
      Dict(VaultRecord("3", "a1", "P2")),
      Dict(DictSet(VaultRecord("4", "a2", "P1"), "secretManagement", Dict(EmptyMap))),
      Dict(DictDel(VaultRecord("5", "a1", "P1"), "address")) }

RECURSIVE SeqsUpTo(_, _)
SeqsUpTo(S, n) ==
    IF n = 0 THEN { << >> }
    ELSE LET shorter == SeqsUpTo(S, n - 1)
         IN  shorter \cup { Append(q, x) : q \in shorter, x \in S }

SearchResults == SeqsUpTo(RecordPool, MaxRecords)

Init ==
    /\ params \in MainParams
    /\ pc = "get_account"
    /\ found = FALSE
    /\ accounts_data = << >>
    /\ account_record = Null
    /\ status_code = 0
    /\ changed = FALSE
    /\ result = Null
    /\ operations = NotBuilt
    /\ rotation = NotBuilt
    /\ requests = << >>
    /\ responses = << >>
    /\ outcome = Running
    /\ runs = 0
    /\ call = NoCall

----------------------------------------------------------------------------
(* get_account, and main up to its dispatch *)

\* the GET is answered 200 with accounts_data = {count: Len(value), value: value}
GetAccount(value, code) ==
    /\ pc = "get_account"
    /\ requests' = Append(requests, Request("GET", "accounts?search", Null, Null))
    /\ responses' = Append(responses, code)
    /\ accounts_data' = value
    /\ LET matched == IF Len(value) = 0
                      THEN [t |-> "ok", how_many |-> 0, first_record_found |-> Null]
                      ELSE match_records(value, params)
       IN  IF IsRaise(matched)
           THEN \* except Exception: fail_json(status_code=-1)
                /\ FailJson("get_account", -1)
                /\ UNCHANGED << found, account_record, status_code, changed, result >>
           ELSE IF matched.how_many > 1
           THEN /\ FailJson("get_account", 0)
                /\ UNCHANGED << found, account_record, status_code, changed, result >>
           ELSE /\ found' = (matched.how_many = 1)
                /\ account_record' = matched.first_record_found
                /\ status_code' = code
                /\ changed' = FALSE
                /\ result' = matched.first_record_found
                /\ pc' = "dispatch"
                /\ UNCHANGED outcome
    /\ UNCHANGED << call, params, operations, rotation, runs >>

\* GetAccountHTTPError without the 404 case: every HTTP error is fatal
GetAccountHTTPErrorAllFatal(code) ==
    /\ pc = "get_account"
    /\ requests' = Append(requests, Request("GET", "accounts?search", Null, Null))
    /\ responses' = Append(responses, code)
    /\ FailJson("get_account", code)
    /\ UNCHANGED << found, account_record, status_code, changed, result >>
    /\ UNCHANGED << call, params, accounts_data, operations, rotation, runs >>

\* the GET raises HTTPError(code)
GetAccountHTTPError(code) ==
    /\ pc = "get_account"
    /\ requests' = Append(requests, Request("GET", "accounts?search", Null, Null))
    /\ responses' = Append(responses, code)
    /\ IF code = 404
       THEN /\ found' = FALSE
            /\ account_record' = Null
            /\ status_code' = code
            /\ changed' = FALSE
            /\ result' = Null
            /\ pc' = "dispatch"
            /\ UNCHANGED outcome
       ELSE /\ FailJson("get_account", code)
            /\ UNCHANGED << found, account_record, status_code, changed, result >>
    /\ UNCHANGED << call, params, accounts_data, operations, rotation, runs >>

----------------------------------------------------------------------------
(* main: state == "present" *)

\* UpdateEnabled without the test of state
UpdateEnabledInAnyState == pc = "dispatch" /\ found

UpdateEnabled == pc = "dispatch" /\ state = Str("present") /\ found

\* update_account raises while it builds the patch: nothing is sent
UpdateAccountRaises ==
    /\ UpdateEnabled
    /\ LET built == build_operations(params, account_record)
       IN  /\ IsRaise(built)
           /\ operations' = built
           /\ Uncaught("update_account", built)
    /\ UNCHANGED << call, params, found, accounts_data, account_record, status_code, changed, result,
                    rotation, requests, responses, runs >>

\* update_account with an empty payload["Operations"]: return (False, result, -1)
UpdateAccountNoChange ==
    /\ UpdateEnabled
    /\ LET built == build_operations(params, account_record)
       IN  /\ ~IsRaise(built)
           /\ Len(built.v) = 0
           /\ operations' = built
    /\ changed' = FALSE
    /\ result' = account_record
    /\ status_code' = -1
    /\ pc' = "reset"
    /\ UNCHANGED << call, params, found, accounts_data, account_record, rotation, requests, responses,
                    outcome, runs >>

\* update_account sends the PATCH and it is answered with code
UpdateAccountPatch(code) ==
    /\ UpdateEnabled
    /\ LET built == build_operations(params, account_record)
       IN  /\ ~IsRaise(built)
           /\ Len(built.v) # 0
           /\ operations' = built
           /\ requests' = Append(requests,
                  Request("PATCH", "Accounts/{id}", account_record.d["id"], built.v))
           /\ responses' = Append(responses, code)
           /\ IF code \in SuccessCodes
              THEN /\ changed' = TRUE
                   /\ result' = apply_operations(account_record, built.v)
                   /\ status_code' = code
                   /\ pc' = "reset"
                   /\ UNCHANGED outcome
              ELSE /\ FailJson("update_account", code)
                   /\ UNCHANGED << changed, result, status_code >>
    /\ UNCHANGED << call, params, found, accounts_data, account_record, rotation, runs >>

\* add_account sends the create POST and it is answered with code
AddAccount(code) ==
    /\ pc = "dispatch" /\ state = Str("present") /\ ~found
    /\ LET payload == create_payload(params)
       IN  /\ requests' = Append(requests, Request("POST", "Accounts", Null, payload))
           /\ responses' = Append(responses, code)
           /\ IF code \in SuccessCodes
              THEN /\ changed' = TRUE
                   /\ result' = created_record(payload)
                   /\ status_code' = code
                   /\ pc' = "reset"
                   /\ UNCHANGED outcome
              ELSE /\ FailJson("add_account", code)
                   /\ UNCHANGED << changed, result, status_code >>
    /\ UNCHANGED << call, params, found, accounts_data, account_record, operations, rotation, runs >>

\* reset_account_if_needed raises in its deep_get reads: nothing is sent
ResetAccountRaises ==
    /\ pc = "reset"
    /\ LET decision == rotation_decision(params)
       IN  /\ IsRaise(decision)
           /\ rotation' = decision
           /\ Uncaught("reset_account_if_needed", decision)
    /\ UNCHANGED << call, params, found, accounts_data, account_record, status_code, changed, result,
                    operations, requests, responses, runs >>

\* reset_account_if_needed with end_point None: return (False, result, -1)
ResetAccountNotNeeded ==
    /\ pc = "reset"
    /\ LET decision == rotation_decision(params)
       IN  /\ decision = NoEndPoint
           /\ rotation' = decision
    /\ pc' = "exit"
    /\ UNCHANGED << call, params, found, accounts_data, account_record, status_code, changed, result,
                    operations, requests, responses, outcome, runs >>

\* reset_account_if_needed sends the rotation POST and it is answered with code
ResetAccount(code) ==
    /\ pc = "reset"
    /\ LET decision == rotation_decision(params)
       IN  /\ ~IsRaise(decision)
           /\ decision # NoEndPoint
           /\ rotation' = decision
           /\ requests' = Append(requests,
                  Request("POST", decision.end_point, result.d["id"], decision.payload))
           /\ responses' = Append(responses, code)
           /\ IF code \in SuccessCodes
              THEN /\ changed' = TRUE       \* account_reset
                   /\ pc' = "exit"
                   /\ UNCHANGED outcome
              ELSE /\ FailJson("reset_account_if_needed", code)
                   /\ UNCHANGED changed
    /\ UNCHANGED << call, params, found, accounts_data, account_record, status_code, result, operations, runs >>

----------------------------------------------------------------------------
(* main: state == "absent", and exit_json *)

\* DeleteAccount that goes on to the rotation, as the present branch does
DeleteAccountThenRotation(code) ==
    /\ pc = "dispatch" /\ found /\ state = Str("absent")
    /\ requests' = Append(requests,
           Request("DELETE", "Accounts/{id}", account_record.d["id"], Null))
    /\ responses' = Append(responses, code)
    /\ IF code \in SuccessCodes
       THEN /\ changed' = TRUE
            /\ result' = account_record
            /\ status_code' = code
            /\ pc' = "reset"
            /\ UNCHANGED outcome
       ELSE /\ FailJson("delete_account", code)
            /\ UNCHANGED << changed, result, status_code >>
    /\ UNCHANGED << call, params, found, accounts_data, account_record, operations,
                    rotation, runs >>

\* delete_account sends the DELETE and it is answered with code
DeleteAccount(code) ==
    /\ pc = "dispatch" /\ found /\ state = Str("absent")
    /\ requests' = Append(requests,
           Request("DELETE", "Accounts/{id}", account_record.d["id"], Null))
    /\ responses' = Append(responses, code)
    /\ IF code \in SuccessCodes
       THEN /\ changed' = TRUE
            /\ result' = Null
            /\ status_code' = code
            /\ pc' = "exit"
            /\ UNCHANGED outcome
       ELSE /\ FailJson("delete_account", code)
            /\ UNCHANGED << changed, result, status_code >>
    /\ UNCHANGED << call, params, found, accounts_data, account_record, operations, rotation, runs >>

\* module.exit_json(changed=changed, cyberark_account=result, status_code=status_code)
ExitJson ==
    /\ \/ pc = "exit"
       \/ pc = "dispatch" /\ state = Str("absent") /\ ~found
    /\ pc' = "done"
    /\ outcome' = [kind |-> "exit_json", changed |-> changed,
                   cyberark_account |-> result, status_code |-> status_code]
    /\ UNCHANGED << call, params, found, accounts_data, account_record, status_code, changed, result,
                    operations, rotation, requests, responses, runs >>

Next ==
    \/ \E value \in SearchResults : GetAccount(value, 200)
    \/ \E code \in ErrorCodes : GetAccountHTTPError(code)
    \/ UpdateAccountRaises
    \/ UpdateAccountNoChange
    \/ \E code \in SuccessCodes \cup ErrorCodes : UpdateAccountPatch(code)
    \/ \E code \in SuccessCodes \cup ErrorCodes : AddAccount(code)
    \/ ResetAccountRaises
    \/ ResetAccountNotNeeded
    \/ \E code \in SuccessCodes \cup ErrorCodes : ResetAccount(code)
    \/ \E code \in SuccessCodes \cup ErrorCodes : DeleteAccount(code)
    \/ ExitJson

Spec == Init /\ [][Next]_vars

----------------------------------------------------------------------------
(* The patch builder run again and again against the record it patches:     *)
(* update_account builds payload["Operations"] from module.params and the   *)
(* record, the vault applies a non-empty list, and the next run of the      *)
(* module builds from the patched record.                                   *)

MaxRuns == 2         \* runs of the builder against the same record

PatchSecretManagement ==
    {Null} \cup
    { SecretManagement(enabled, Null, Null, Null) :
        enabled \in StrOrNull({"true", "false", "NO_VALUE"}) }

\* a dict over a subset of keys: choice[k] is the value of k, or Null to leave k out
DictOf(choice) == Dict([k \in {x \in DOMAIN choice : choice[x] # Null} |-> choice[k]])

\* platform_account_properties is free-form: the caller chooses the keys
PatchAccountProperties ==
    {Null} \cup
    { DictOf([Port |-> port, username |-> lower, userName |-> camel]) :
        port \in StrOrNull({"v1", "NO_VALUE"}),
        lower \in StrOrNull({"v1"}),
        camel \in StrOrNull({"v1", "v2"}) }

PatchParams ==
    { ModuleParams(Str("present"), DefaultIdentifiedBy, address, name, Null,
                   secret_management, platform_account_properties) :
        address \in StrOrNull({"a1", "a2", "NO_VALUE"}),
        name \in StrOrNull({"NO_VALUE"}),
        secret_management \in PatchSecretManagement,
        platform_account_properties \in PatchAccountProperties }

PatchRecords ==
    { DictOf([id |-> Str("1"), userName |-> Str("u1"), platformId |-> Str("P1"),
              safeName |-> Str("S1"), secretType |-> Str("password"),
              name |-> Str("n1"),
              address |-> address,
              secretManagement |-> secret_management,
              platformAccountProperties |-> platform_account_properties]) :
        address \in StrOrNull({"a1"}),
        secret_management \in
            {Null, Dict(EmptyMap), Dict([automaticManagementEnabled |-> Str("true")])},
        platform_account_properties \in
            {Null, Dict(EmptyMap), Dict([Port |-> Str("v1")]),
             Dict([userName |-> Str("v1")]),
             Dict([Port |-> Str("v1"), userName |-> Str("v1")])} }

InitPatch ==
    /\ params \in PatchParams
    /\ account_record \in PatchRecords
    /\ pc = "build"
    /\ found = TRUE
    /\ accounts_data = << >>
    /\ status_code = 0
    /\ changed = FALSE
    /\ result = Null
    /\ operations = NotBuilt
    /\ rotation = NotBuilt
    /\ requests = << >>
    /\ responses = << >>
    /\ outcome = Running
    /\ runs = 0
    /\ call = NoCall

\* update_account up to `if len(payload["Operations"]) == 0`
BuildPatch ==
    /\ pc = "build"
    /\ runs < MaxRuns
    /\ operations' = build_operations(params, account_record)
    /\ runs' = runs + 1
    /\ pc' = "built"
    /\ UNCHANGED << call, params, found, accounts_data, account_record, status_code, changed,
                    result, rotation, requests, responses, outcome >>

\* a non-empty list is sent and the vault applies it
VaultApplies ==
    /\ pc = "built"
    /\ ~IsRaise(operations)
    /\ Len(operations.v) # 0
    /\ requests' = Append(requests,
           Request("PATCH", "Accounts/{id}", account_record.d["id"], operations.v))
    /\ account_record' = apply_operations(account_record, operations.v)
    /\ pc' = "build"
    /\ UNCHANGED << call, params, found, accounts_data, status_code, changed, result,
                    operations, rotation, responses, outcome, runs >>

NextPatch == BuildPatch \/ VaultApplies

SpecPatch == InitPatch /\ [][NextPatch]_vars

----------------------------------------------------------------------------
(* Reading the request log *)

IsCreate(r) == r.method = "POST" /\ r.end_point = "Accounts"
IsPatch(r) == r.method = "PATCH"
IsDelete(r) == r.method = "DELETE"
IsMutating(r) == IsCreate(r) \/ IsPatch(r) \/ IsDelete(r)
RotationEndPoints == {"SetNextPassword", "Change", "Reconcile", "Password/Update"}
IsRotation(r) == r.method = "POST" /\ r.end_point \in RotationEndPoints

MutatingRequests == SelectSeq(requests, IsMutating)
RotationRequests == SelectSeq(requests, IsRotation)

Present == state = Str("present")
Absent == state = Str("absent")

\* the lookup has given main its (found, account_record, status_code)
LookedUp == pc \in {"dispatch", "reset", "exit", "done"}
            \/ (pc = "failed" /\ outcome.where # "get_account")

\* the create / update step of a present run has returned to main
MainStepReturned == pc \in {"reset", "exit", "done"}
                    \/ (pc = "failed" /\ outcome.where = "reset_account_if_needed")

\* what the caller asked of the rotation, read off module.params
GivenSecretManagement == params.d["secret_management"]
GivenAction == IF GivenSecretManagement = Null THEN Null
               ELSE GivenSecretManagement.d["management_action"]
GivenCpmSecret == IF GivenSecretManagement = Null THEN Null
                  ELSE GivenSecretManagement.d["new_secret"]
GivenBareSecret == params.d["new_secret"]

----------------------------------------------------------------------------
\* C1: main issues exactly the action of the transition table: present and not
\* found -> one create POST; present and found -> one PATCH (to the matched id,
\* carrying the built list) when the built list is non-empty and no mutating
\* call when it is empty; absent and found -> one DELETE to the matched id;
\* absent and not found -> no mutating call.  In a present run the rotation is
\* evaluated after create, patch and no-op alike: with management_action
\* reconcile, a run whose create / update step returned ends with exactly one
\* POST to the reconcile endpoint, with an empty body.
C1_TransitionTable ==
    LET mut == MutatingRequests
    IN  LookedUp =>
        /\ Len(mut) <= 1
        /\ (Present /\ ~found) =>
              /\ \A i \in 1..Len(mut) : IsCreate(mut[i])
              /\ MainStepReturned => Len(mut) = 1
        /\ (Present /\ found) =>
              /\ \A i \in 1..Len(mut) :
                    /\ IsPatch(mut[i])
                    /\ mut[i].id = account_record.d["id"]
                    /\ mut[i].data = operations.v
                    /\ Len(operations.v) # 0
              /\ MainStepReturned => (Len(mut) = 1 <=> Len(operations.v) # 0)
        /\ (Absent /\ found) =>
              /\ \A i \in 1..Len(mut) :
                    IsDelete(mut[i]) /\ mut[i].id = account_record.d["id"]
              /\ pc \in {"exit", "done"} => Len(mut) = 1
        /\ (Absent /\ ~found) => Len(mut) = 0
        /\ (Present /\ GivenAction = Str("reconcile") /\ pc \in {"exit", "done"}) =>
              RotationRequests =
                  << Request("POST", "Reconcile", result.d["id"], EmptyMap) >>

\* a found record needed no change and the reconcile POST was still sent
C1_Witness ==
    /\ pc = "done" /\ Present /\ found
    /\ operations = Ok(<< >>)
    /\ MutatingRequests = << >>
    /\ GivenAction = Str("reconcile")
    /\ Len(RotationRequests) = 1

----------------------------------------------------------------------------
\* the claim's own reading of "equals the desired value on every identity
\* field": the record carries the field under its vault name, with the value
\* module.params gives for it
VaultName(name) ==
    IF name \in DOMAIN cyberark_reference_fieldnames
    THEN cyberark_reference_fieldnames[name] ELSE name

EqualsDesired(record) ==
    \A i \in 1..Len(identified_by_fields(params)) :
        LET field == identified_by_fields(params)[i][1]
        IN  /\ VaultName(field) \in Keys(record)
            /\ record.d[VaultName(field)] = params.d[field]

EqualRecords == {i \in 1..Len(accounts_data) : EqualsDesired(accounts_data[i])}

\* C4: of the records the search answered, get_account counts those equal to
\* the desired value on every identity field: more than one -> the run aborts
\* in get_account and nothing but the GET was sent; exactly one -> found, and
\* that record is the one handed on; none -> not found.  So every PATCH or
\* DELETE is addressed to a record that matches on all identity fields.
C4_UniqueMatch ==
    (Len(responses) >= 1 /\ responses[1] \in SuccessCodes) =>
        /\ Cardinality(EqualRecords) > 1 =>
              /\ pc = "failed" /\ outcome.kind = "fail_json"
              /\ outcome.where = "get_account"
              /\ Len(requests) = 1
        /\ Cardinality(EqualRecords) = 1 =>
              /\ LookedUp /\ found
              /\ account_record = accounts_data[CHOOSE i \in EqualRecords : TRUE]
        /\ Cardinality(EqualRecords) = 0 =>
              /\ LookedUp /\ ~found /\ account_record = Null
        /\ \A i \in 1..Len(requests) :
              (IsPatch(requests[i]) \/ IsDelete(requests[i])) =>
                  /\ EqualsDesired(account_record)
                  /\ requests[i].id = account_record.d["id"]

\* two records that differ in platformId both match on the one identity field
\* address, and the run aborted
C4_Witness ==
    /\ identified_by_fields(params) = << <<"address">> >>
    /\ Len(accounts_data) = 2
    /\ accounts_data[1].d["platformId"] # accounts_data[2].d["platformId"]
    /\ Cardinality(EqualRecords) = 2
    /\ pc = "failed"

----------------------------------------------------------------------------
\* C5: a 404 answered to the lookup is not fatal: get_account returns not found
\* and main goes on as after an empty search result (present: the next request
\* is the create POST; absent: no further request).  Any other HTTP error on
\* the lookup ends the run in get_account's fail_json with that code.
C5_Lookup404 ==
    Len(responses) >= 1 =>
        /\ (responses[1] = 404
            \/ (responses[1] \in SuccessCodes /\ accounts_data = << >>)) =>
              /\ LookedUp /\ ~found /\ account_record = Null
              /\ Present => (IF Len(requests) = 1 THEN pc = "dispatch"
                             ELSE IsCreate(requests[2]))
              /\ Absent => (Len(requests) = 1 /\ pc \in {"dispatch", "done"})
        /\ (responses[1] \in ErrorCodes \ {404}) =>
              /\ pc = "failed"
              /\ outcome = [kind |-> "fail_json", where |-> "get_account",
                            status_code |-> responses[1]]
              /\ Len(requests) = 1

\* the lookup was answered 404 and the create POST followed
C5_Witness ==
    /\ Len(requests) >= 2
    /\ responses[1] = 404
    /\ IsCreate(requests[2])

----------------------------------------------------------------------------
Rank(r) == IF r.method = "GET" THEN 1 ELSE IF IsMutating(r) THEN 2 ELSE 3

\* the i-th response is a failure of its request (a 404 to the lookup is not)
FailedResponse(i) ==
    responses[i] \notin SuccessCodes /\ ~(i = 1 /\ responses[i] = 404)

\* C9: a run is strictly sequential with no retries: the first request is the
\* lookup GET, then at most one mutating request, then at most one rotation
\* POST, none sent twice; a failed request is the last one of the run, and a
\* run that failed in the lookup or in the create / update step sent nothing
\* after it.
C9_Sequential ==
    /\ Len(responses) = Len(requests)
    /\ pc # "get_account" => (Len(requests) >= 1 /\ requests[1].method = "GET")
    /\ \A i, j \in 1..Len(requests) :
          i < j => Rank(requests[i]) < Rank(requests[j])
    /\ \A i \in 1..Len(responses) :
          FailedResponse(i) => (i = Len(responses) /\ pc = "failed")
    /\ (pc = "failed" /\ outcome.where = "get_account") => Len(requests) = 1
    /\ (pc = "failed" /\ outcome.where \in {"add_account", "update_account"}) =>
          RotationRequests = << >>

\* the create failed although a rotation was asked for: nothing followed it
C9_Witness ==
    /\ pc = "failed" /\ outcome.where = "add_account"
    /\ GivenAction = Str("reconcile")
    /\ Len(requests) = 2
    /\ FailedResponse(2)

----------------------------------------------------------------------------
\* C10: the status_code a successful run returns is the status code of the last
\* HTTP response observed in that run.
C10_LastStatusCode ==
    pc = "done" => outcome.status_code = responses[Len(responses)]

----------------------------------------------------------------------------
(* Reading module.params and the record as the patch claims do *)

\* every desired account field, top-level or child of a sub-object, that is no
\* control field: its name, its value and the vault path it resolves to
DesiredFields ==
    { [name |-> <<n>>, value |-> params.d[n], path |-> <<VaultName(n)>>] :
        n \in { m \in Keys(params) : /\ <<m>> \notin ansible_specific_parameters
                                     /\ params.d[m] # Null
                                     /\ ~IsDict(params.d[m]) } }
    \cup
    UNION { { [name |-> <<n, c>>, value |-> params.d[n].d[c],
               path |-> <<VaultName(n), VaultName(c)>>] :
                c \in { k \in Keys(params.d[n]) :
                            <<n, k>> \notin ansible_specific_parameters } } :
            n \in { m \in Keys(params) : /\ <<m>> \notin ansible_specific_parameters
                                         /\ IsDict(params.d[m]) } }

\* the record's value at a path of one or two segments, Null when there is none
ExistingAt(path) ==
    IF path[1] \notin Keys(account_record) THEN Null
    ELSE IF Len(path) = 1 THEN account_record.d[path[1]]
    ELSE IF ~IsDict(account_record.d[path[1]]) THEN Null
    ELSE IF path[2] \notin Keys(account_record.d[path[1]]) THEN Null
    ELSE account_record.d[path[1]].d[path[2]]

\* how many operations of the built list have this path and one of these kinds
OperationsAt(path, kinds) ==
    Cardinality({ i \in 1..Len(operations.v) :
                    operations.v[i].path = path /\ operations.v[i].op \in kinds })

\* update_account has just built a list from params and account_record
Built == pc = "built" /\ operations.t = "ok"

----------------------------------------------------------------------------
\* C3: in the patch update_account builds, a desired field (top-level or
\* child) whose value is the sentinel "NO_VALUE" is never rendered as add or
\* replace: it gives one remove at its resolved path when the record has a
\* non-null value there, and no operation otherwise.  (Add / replace at that
\* path can only come from another, non-sentinel field resolving to it.)
C3_SentinelNeverAdds ==
    Built =>
        \A f \in DesiredFields :
            f.value = removal_value =>
                LET sentinels == { g \in DesiredFields :
                                     g.path = f.path /\ g.value = removal_value }
                    others == { g \in DesiredFields :
                                  g.path = f.path /\ g.value # removal_value }
                IN  /\ OperationsAt(f.path, {"remove"}) =
                          (IF ExistingAt(f.path) # Null THEN Cardinality(sentinels) ELSE 0)
                    /\ OperationsAt(f.path, {"add", "replace"}) <= Cardinality(others)

\* address is the sentinel with no address on the record (no operation), and
\* the child Port is the sentinel with a Port on the record (a remove)
C3_Witness ==
    /\ Built
    /\ params.d["address"] = removal_value
    /\ ExistingAt(<<"address">>) = Null
    /\ OperationsAt(<<"address">>, {"add", "replace", "remove"}) = 0
    /\ ExistingAt(<<"platformAccountProperties", "Port">>) # Null
    /\ OperationsAt(<<"platformAccountProperties", "Port">>, {"remove"}) = 1

----------------------------------------------------------------------------
\* C2 as stated: for all module.params and records, once the list built by
\* update_account has been applied to the record, the builder run on the
\* patched record yields an empty list.
C2_Idempotent ==
    (Built /\ runs >= 2) => operations.v = << >>

\* no two desired fields resolve to the same vault path (as the children
\* username and userName of platform_account_properties do)
NoSharedPath ==
    \A f, g \in DesiredFields : f.path = g.path => f.name = g.name

\* C2, amended: for all module.params in which no two desired fields resolve
\* to the same vault path, and all records on which update_account builds a
\* list: once that list has been applied to the record, the builder run on the
\* patched record yields an empty list.
C2_IdempotentNoSharedPath ==
    (Built /\ runs >= 2 /\ NoSharedPath) => operations.v = << >>

\* a patch with a nested operation was applied and the second build is empty
C2_Witness ==
    /\ Built /\ runs = 2 /\ NoSharedPath
    /\ operations = Ok(<< >>)
    /\ Len(requests) = 1
    /\ \E i \in 1..Len(requests[1].data) : Len(requests[1].data[i].path) = 2

----------------------------------------------------------------------------
(* The five rotation rules, as the claims list them *)

Rule1 == GivenAction = Str("change") /\ GivenCpmSecret # Null
Rule2 == GivenAction = Str("change_immediately") /\ GivenCpmSecret = Null
Rule3 == GivenAction = Str("change_immediately") /\ GivenCpmSecret # Null
Rule4 == GivenAction = Str("reconcile")
Rule5 == ~Rule1 /\ ~Rule2 /\ ~Rule3 /\ ~Rule4 /\ GivenBareSecret # Null

SomeRuleMatches == Rule1 \/ Rule2 \/ Rule3 \/ Rule4 \/ Rule5

\* the rotation POST the first matching rule asks for, addressed to id
ExpectedRotation(id) ==
    CASE Rule1 -> Request("POST", "SetNextPassword", id,
                          [ChangeImmediately |-> Str("False"),
                           NewCredentials |-> GivenCpmSecret])
      [] Rule2 -> Request("POST", "Change", id, [ChangeEntireGroup |-> Str("False")])
      [] Rule3 -> Request("POST", "SetNextPassword", id,
                          [ChangeImmediately |-> Str("True"),
                           NewCredentials |-> GivenCpmSecret])
      [] Rule4 -> Request("POST", "Reconcile", id, EmptyMap)
      [] Rule5 -> Request("POST", "Password/Update", id,
                          [ChangeEntireGroup |-> Str("True"),
                           NewCredentials |-> GivenBareSecret])

----------------------------------------------------------------------------
----------------------------------------------------------------------------
----------------------------------------------------------------------------
\* C8: when none of the five rules applies - in particular with no
\* secret_management sub-object and no new_secret - a present run whose create
\* / update step returned completes normally: no rotation POST, and the run's
\* outcome is that of the create / update step alone.
C8_NoRuleCompletes ==
    (Present /\ MainStepReturned /\ ~SomeRuleMatches) =>
        /\ pc # "failed"
        /\ RotationRequests = << >>
        /\ pc = "done" =>
              /\ outcome.kind = "exit_json"
              /\ outcome.changed = (Len(MutatingRequests) = 1)

----------------------------------------------------------------------------
(* Reading the create request as the payload claim does *)

\* the caller's account fields that carry a value: desired fields that are
\* neither null nor the sentinel, each with the vault path it resolves to
SuppliedFields ==
    { [path |-> f.path, value |-> f.value] :
        f \in { g \in DesiredFields : g.value # Null /\ g.value # removal_value } }

\* what a payload carries: every value that is no mapping, with its path of
\* one or two keys
PayloadLeaves(payload) ==
    { [path |-> <<k>>, value |-> payload[k]] :
        k \in { x \in DOMAIN payload : ~IsDict(payload[x]) } }
    \cup
    UNION { { [path |-> <<k, c>>, value |-> payload[k].d[c]] : c \in Keys(payload[k]) } :
            k \in { x \in DOMAIN payload : IsDict(payload[x]) } }

\* C11: when the desired state is present and the lookup finds no record, the
\* create request's payload carries exactly the caller's non-null,
\* non-control, non-sentinel account fields, each under its vault field name
\* (children of a sub-object included), and nothing else.
C11_CreatePayload ==
    \A i \in 1..Len(requests) :
        IsCreate(requests[i]) => PayloadLeaves(requests[i].data) = SuppliedFields

\* a create whose payload is exactly the supplied fields (no sub-object given)
C11_FlatPayload ==
    /\ Len(requests) = 2 /\ IsCreate(requests[2])
    /\ params.d["secret_management"] = Null
    /\ PayloadLeaves(requests[2].data) = SuppliedFields

----------------------------------------------------------------------------
\* vault paths of the account fields the caller left unset: a non-control
\* parameter that is null, or a null child of a supplied sub-object
UnsetPaths ==
    { <<VaultName(n)>> :
        n \in { m \in Keys(params) : /\ <<m>> \notin ansible_specific_parameters
                                     /\ params.d[m] = Null } }
    \cup { f.path : f \in { g \in DesiredFields : g.value = Null } }

\* vault paths some desired field with a value resolves to
SetPaths == { f.path : f \in { g \in DesiredFields : g.value # Null } }

\* C12: the patch update_account builds has no operation for a field whose
\* desired value is null or absent, at top level or as a child of a supplied
\* sub-object: no add, replace or remove at the path of such a field (unless
\* another field, with a value, resolves to the same path).
C12_NoOperationForUnset ==
    Built =>
        \A p \in UnsetPaths \ SetPaths :
            OperationsAt(p, {"add", "replace", "remove"}) = 0

\* an unset child of a supplied sub-object whose record has no value there:
\* the list has no operation for it
C12_UnsetChildNoValue ==
    /\ Built
    /\ IsDict(params.d["secret_management"])
    /\ params.d["secret_management"].d["automatic_management_enabled"] = Null
    /\ ExistingAt(<<"secretManagement", "automaticManagementEnabled">>) = Null
    /\ OperationsAt(<<"secretManagement", "automaticManagementEnabled">>,
                    {"add", "replace", "remove"}) = 0

----------------------------------------------------------------------------
\* C13: no patch update_account builds has a remove operation whose path is
\* one of the non-removable, server-managed fields (createdTime, id, name,
\* lastModifiedTime, safeName, secretType), whatever module.params holds, the
\* sentinel "NO_VALUE" included.
C13_NeverRemovesNonRemovable ==
    Built =>
        \A i \in 1..Len(operations.v) :
            operations.v[i].op = "remove" =>
                ~(/\ Len(operations.v[i].path) = 1
                  /\ operations.v[i].path[1] \in cyberark_nonremovable_properties)

\* the sentinel on a removable field: address is removed, and no
\* non-removable field is touched
C13_RemovesOnlyRemovable ==
    /\ Built
    /\ params.d["address"] = removal_value
    /\ params.d["name"] = Null
    /\ OperationsAt(<<"address">>, {"remove"}) = 1
    /\ \A p \in cyberark_nonremovable_properties : OperationsAt(<<p>>, {"remove"}) = 0

----------------------------------------------------------------------------
(* deep_get on its own: the function applied to a container, a dotted path, *)
(* a default (or none) and the rename switch                                *)

MaxSegments == 2     \* longest dotted path deep_get is called with

\* path segments: a sub-object, a name found in sub-objects and at the root,
\* and a name the rename table maps (platform_id -> platformId)
Segments == {"secret_management", "management_action", "platform_id"}

\* dotted_path.split('.') has at least one segment
DottedPaths == SeqsUpTo(Segments, MaxSegments) \ { << >> }

Missing == [t |-> "missing"]

\* containers: the sub-object missing, null, empty or filled; the other names
\* present at the root or not
Containers ==
    { LET root == DictOf([management_action |-> management_action,
                          platform_id |-> platform_id,
                          platformId |-> platformId])
      IN  IF secret_management = Missing THEN root
          ELSE Dict(DictSet(root.d, "secret_management", secret_management)) :
        secret_management \in
            {Missing, Null, Dict(EmptyMap), Dict([management_action |-> Str("change")])},
        management_action \in StrOrNull({"root"}),
        platform_id \in StrOrNull({"P2"}),
        platformId \in StrOrNull({"P1"}) }

Defaults == {NoDefault, Str("NOT_FOUND")}

InitDeepGet ==
    /\ params \in Containers
    /\ call \in [dotted_path : DottedPaths, default : Defaults,
                 use_reference_table : BOOLEAN]
    /\ pc = "call"
    /\ result = Null
    /\ found = FALSE
    /\ accounts_data = << >>
    /\ account_record = Null
    /\ status_code = 0
    /\ changed = FALSE
    /\ operations = NotBuilt
    /\ rotation = NotBuilt
    /\ requests = << >>
    /\ responses = << >>
    /\ outcome = Running
    /\ runs = 0

\* deep_get(dct, dotted_path, default, use_reference_table): the value it
\* returns or the exception it raises
DeepGet ==
    /\ pc = "call"
    /\ result' = deep_get(params, call.dotted_path, call.default, call.use_reference_table)
    /\ pc' = "returned"
    /\ UNCHANGED << call, params, found, accounts_data, account_record, status_code, changed,
                    operations, rotation, requests, responses, outcome, runs >>

NextDeepGet == DeepGet

SpecDeepGet == InitDeepGet /\ [][NextDeepGet]_vars

----------------------------------------------------------------------------
(* Reading a deep_get call as its contract does *)

\* the walk of the contract: one segment at a time, each looked up in the
\* container the preceding segments reached (under the rename switch: by its
\* vault name, else by its own name); Missing when a segment is not there or
\* what was reached is no mapping
RECURSIVE Reached(_, _, _)
Reached(container, path, use_rename) ==
    IF path = << >> THEN Ok(container)
    ELSE IF ~IsDict(container) THEN Missing
    ELSE IF use_rename /\ VaultName(Head(path)) \in Keys(container)
    THEN Reached(container.d[VaultName(Head(path))], Tail(path), use_rename)
    ELSE IF Head(path) \in Keys(container)
    THEN Reached(container.d[Head(path)], Tail(path), use_rename)
    ELSE Missing

Returned == pc = "returned"

CallReached == Reached(params, call.dotted_path, call.use_reference_table)

\* C14: for every container, path, default and rename switch, deep_get returns
\* the value reached when every segment is present in the container reached
\* by the preceding segments; when a segment is missing (an intermediate value
\* that is null or an empty mapping included) it returns the default if one
\* was supplied, never raising, and raises only when none was supplied.
C14_DeepGetContract ==
    Returned =>
        IF CallReached # Missing THEN result = CallReached.v
        ELSE IF call.default # NoDefault THEN result = call.default
        ELSE IsRaise(result)

\* a two-segment path whose sub-object is filled: the child's value comes back
C14_NestedValue ==
    /\ Returned
    /\ Len(call.dotted_path) = 2
    /\ CallReached = Ok(Str("change"))
    /\ result = Str("change")

====
